---- MODULE Spec2Model ----
(***************************************************************************)
(* Model of src-tauri/src/lib.rs of haybox-debugger: the USB bus scan, the *)
(* device/driver status snapshot, the XInput DLL manager, the WinUSB       *)
(* driver installer and the driver-information query.                      *)
(*                                                                         *)
(* The host is the environment: the USB bus, the Plug-and-Play driver      *)
(* database (WMI), the file system (System32, the executable's directory,  *)
(* the scratch directory under %TEMP%) and the subprocesses net, pnputil   *)
(* and devcon.  Every result the code matches on (Ok/Err of a library      *)
(* call, the exit status of a subprocess) is an input of the operation     *)
(* that makes the call.  std::env::current_exe() and .parent() of it are   *)
(* taken to succeed: on Windows the path of a running image always         *)
(* resolves and always has a parent directory.  Path::exists() is taken to *)
(* be exact: the paths are local and readable by every user.  A failed     *)
(* rename, copy or write leaves its target as it was.                      *)
(***************************************************************************)
EXTENDS Integers, Sequences, FiniteSets, TLC

VARIABLES
  bus,        \* attached USB devices, in enumeration order
  drvdb,      \* Win32_PnPEntity records of the driver database
  sysdir,     \* System32: xinput1_4.dll and xinput1_4.dll.bak
  exedir,     \* the executable's directory: XInput1_4.dll, driver_resources
  scratch,    \* %TEMP%\haybox_drivers
  last,       \* the call that has just completed, with its inputs and result
  written,    \* the INF text prepare_driver wrote most recently
  st          \* the get_device_status call in progress

vars == <<bus, drvdb, sysdir, exedir, scratch, last, written, st>>

----------------------------------------------------------------------------
(* Bounds of the model *)

MaxDevices == 2     \* devices on the bus
MaxPairs == 2       \* length of a batch of (VID, PID) pairs

----------------------------------------------------------------------------
(* DEVICES, lib.rs 204-232 *)

VID_DEFAULT == 1848      \* 0x0738
PID_DEFAULT == 18214     \* 0x4726
VID_PICO == 11914        \* 0x2E8A
PID_CONFIG == 10         \* 0x000A
PID_BOOTSEL == 3         \* 0x0003
VID_SWITCH == 3853       \* 0x0F0D
PID_SWITCH == 146        \* 0x0092
VID_GAMECUBE == 1406     \* 0x057E
PID_GAMECUBE == 823      \* 0x0337

DEVICES ==
  [ default_mode  |-> [vid |-> VID_DEFAULT,  pid |-> PID_DEFAULT,  name |-> "Default Mode"],
    config_mode   |-> [vid |-> VID_PICO,     pid |-> PID_CONFIG,   name |-> "Config Mode"],
    bootsel_mode  |-> [vid |-> VID_PICO,     pid |-> PID_BOOTSEL,  name |-> "BOOTSEL Mode"],
    switch_mode   |-> [vid |-> VID_SWITCH,   pid |-> PID_SWITCH,   name |-> "Switch Mode"],
    gamecube_mode |-> [vid |-> VID_GAMECUBE, pid |-> PID_GAMECUBE, name |-> "GameCube Adapter"] ]

(* A device on the bus: its descriptor's ids, and whether                  *)
(* device.device_descriptor() returns Ok for it.                           *)
Device(vid, pid, ok) == [vid |-> vid, pid |-> pid, desc_ok |-> ok]

(* Outcomes of rusb::Context::new() and context.devices().                 *)
UsbOutcomes == {"ok", "context_err", "devices_err"}

NoCall == [op |-> "none"]

----------------------------------------------------------------------------
(* Bus Scanner *)

(* lib.rs 264-268: the inner loop over devices_to_check for one device.    *)
MarkMatchesVidOnly(desc, devices_to_check, results) ==
  [i \in 1..Len(devices_to_check) |->
     IF desc.vid = devices_to_check[i][1] THEN TRUE ELSE results[i]]

MarkMatches(desc, devices_to_check, results) ==
  [i \in 1..Len(devices_to_check) |->
     IF desc.vid = devices_to_check[i][1] /\ desc.pid = devices_to_check[i][2]
     THEN TRUE
     ELSE results[i]]

(* lib.rs 262-270: the loop over device_list, from device k on.            *)
RECURSIVE ScanDevices(_, _, _, _)
ScanDevices(device_list, k, devices_to_check, results) ==
  IF k > Len(device_list)
  THEN results
  ELSE ScanDevices(device_list, k + 1, devices_to_check,
                   IF device_list[k].desc_ok
                   THEN MarkMatches(device_list[k], devices_to_check, results)
                   ELSE results)

(* lib.rs 256-277 *)
is_device_connected_batch(device_list, usb, devices_to_check) ==
  LET allFalse == [i \in 1..Len(devices_to_check) |-> FALSE]
  IN  IF usb = "ok"
      THEN ScanDevices(device_list, 1, devices_to_check, allFalse)
      ELSE allFalse

(* The scan with the PID comparison lost. *)
is_connected_vid_only(device_list, usb, vid, pid) ==
  /\ usb = "ok"
  /\ \E k \in 1..Len(device_list) :
       /\ device_list[k].desc_ok
       /\ device_list[k].vid = vid

(* The single-identity scan the code repeats inline: lib.rs 290-302,       *)
(* 366-378, 484-496 and 539-551.                                           *)
is_connected(device_list, usb, vid, pid) ==
  /\ usb = "ok"
  /\ \E k \in 1..Len(device_list) :
       /\ device_list[k].desc_ok
       /\ device_list[k].vid = vid
       /\ device_list[k].pid = pid

----------------------------------------------------------------------------
(* The environment *)

(* Every list of at most n elements of S. *)
SeqsUpTo(S, n) == UNION {[1..k -> S] : k \in 0..n}

InsertAt(s, k, e) == SubSeq(s, 1, k - 1) \o <<e>> \o SubSeq(s, k, Len(s))
RemoveAt(s, k) == SubSeq(s, 1, k - 1) \o SubSeq(s, k + 1, Len(s))

(* A device is plugged in; where it lands in the enumeration is the host's *)
(* choice.                                                                 *)
Attach(devs) ==
  /\ last = NoCall
  /\ Len(bus) < MaxDevices
  /\ \E d \in devs, k \in 1..(Len(bus) + 1) : bus' = InsertAt(bus, k, d)
  /\ UNCHANGED <<drvdb, sysdir, exedir, scratch, last, written, st>>

Detach ==
  /\ last = NoCall
  /\ \E k \in 1..Len(bus) : bus' = RemoveAt(bus, k)
  /\ UNCHANGED <<drvdb, sysdir, exedir, scratch, last, written, st>>

(* The command surface hands the result to its caller. *)
Return ==
  /\ last # NoCall
  /\ last' = NoCall
  /\ UNCHANGED <<bus, drvdb, sysdir, exedir, scratch, written, st>>

----------------------------------------------------------------------------
(* Initial host state shared by the specifications *)

(* A file: absent, or present with its content. *)
NoFile == [exists |-> FALSE]
File(content) == [exists |-> TRUE, content |-> content]

(* The scratch directory before its first use. *)
EmptyScratch == [dir |-> FALSE, inf |-> NoFile, co1 |-> FALSE, co2 |-> FALSE]

(* The executable's directory of an installation lacking everything but    *)
(* the bundled XInput1_4.dll.                                              *)
BareExeDir ==
  [xinput |-> "bundled", resources |-> FALSE, template |-> NoFile,
   co1 |-> FALSE, co2 |-> FALSE, devcon |-> FALSE]

InitIdle ==
  /\ bus = <<>>
  /\ drvdb = <<>>
  /\ sysdir = [dll |-> "system", bak |-> "none"]
  /\ exedir = BareExeDir
  /\ scratch = EmptyScratch
  /\ last = NoCall
  /\ written = NoFile
  /\ st = [pc |-> "idle"]

----------------------------------------------------------------------------
(* SpecScan: is_device_connected_batch over every bus and every batch *)

(* Identities on the bus: two that share a VID, and one that shares a PID  *)
(* with the first.                                                         *)
ScanPairs ==
  { <<VID_PICO, PID_CONFIG>>, <<VID_PICO, PID_BOOTSEL>>, <<VID_DEFAULT, PID_CONFIG>> }

ScanDevs == { Device(p[1], p[2], ok) : p \in ScanPairs, ok \in BOOLEAN }

CallBatch ==
  /\ last = NoCall
  /\ \E devices_to_check \in SeqsUpTo(ScanPairs, MaxPairs), usb \in UsbOutcomes :
       last' = [op |-> "is_device_connected_batch",
                devices_to_check |-> devices_to_check,
                usb |-> usb,
                result |-> is_device_connected_batch(bus, usb, devices_to_check)]
  /\ UNCHANGED <<bus, drvdb, sysdir, exedir, scratch, written, st>>

NextScan ==
  \/ Attach(ScanDevs)
  \/ Detach
  \/ CallBatch
  \/ Return

SpecScan == InitIdle /\ [][NextScan]_vars

(* C5: the batch result has the input's length, and entry i is true iff    *)
(* the USB context and enumeration succeeded and some attached device with *)
(* a readable descriptor has exactly pair i's VID and PID; so it depends   *)
(* neither on the enumeration order nor on the number of matching devices, *)
(* an unreadable device hides no other, and a failed context or            *)
(* enumeration gives all false.                                            *)
C5_BatchExact ==
  last.op = "is_device_connected_batch" =>
    /\ Len(last.result) = Len(last.devices_to_check)
    /\ \A i \in 1..Len(last.devices_to_check) :
         last.result[i] =
           ( /\ last.usb = "ok"
             /\ \E d \in {bus[k] : k \in 1..Len(bus)} :
                  /\ d.desc_ok
                  /\ <<d.vid, d.pid>> = last.devices_to_check[i] )

(* An unreadable device enumerated before a readable match, in a batch     *)
(* with one pair present and one absent that shares the present one's VID. *)
C5_Witness ==
  /\ last.op = "is_device_connected_batch"
  /\ last.usb = "ok"
  /\ Len(bus) = 2
  /\ ~bus[1].desc_ok
  /\ bus[2] = Device(VID_PICO, PID_CONFIG, TRUE)
  /\ last.devices_to_check = << <<VID_PICO, PID_BOOTSEL>>, <<VID_PICO, PID_CONFIG>> >>
  /\ last.result = <<FALSE, TRUE>>

----------------------------------------------------------------------------
(* Driver database (WMI, Win32_PnPEntity) *)

HexDigits == <<"0", "1", "2", "3", "4", "5", "6", "7",
               "8", "9", "A", "B", "C", "D", "E", "F">>

(* format!("{:04X}", n) for a u16: four upper-case hexadecimal digits.     *)
Hex4(n) ==
  << HexDigits[((n \div 4096) % 16) + 1],
     HexDigits[((n \div 256) % 16) + 1],
     HexDigits[((n \div 16) % 16) + 1],
     HexDigits[(n % 16) + 1] >>

(* Option<T> *)
None == [some |-> FALSE]
Some(v) == [some |-> TRUE, val |-> v]

(* A Win32_PnPEntity record.  Its DeviceID names the enumerator and embeds *)
(* VID_xxxx and PID_xxxx in hexadecimal; a string property is a list of    *)
(* words.                                                                  *)
PnPEntity(enumerator, vid, pid, name, provider) ==
  [DeviceID |-> [enumerator |-> enumerator, vid |-> Hex4(vid), pid |-> Hex4(pid)],
   Name |-> name,
   DriverProvider |-> provider,
   DriverVersion |-> IF provider.some THEN Some(<<"10.0.19041.1">>) ELSE None,
   DriverDate |-> IF provider.some THEN Some(<<"20060621">>) ELSE None]

WinUsbProvider == <<"Microsoft", "WinUSB", "Device", "Driver">>
GenericProvider == <<"Generic", "USB", "Driver">>

(* provider.contains("WinUSB"), lib.rs 517 and 612-615 *)
contains_WinUSB(provider) == \E i \in 1..Len(provider) : provider[i] = "WinUSB"

(* Outcomes of wmi::WMIConnection::new and of raw_query.                   *)
WmiOutcomes == {"ok", "init_err", "query_err"}

Ok(v) == [ok |-> TRUE, val |-> v]
Err(e) == [ok |-> FALSE, err |-> e]

(* The WHERE clause of a query: the VID_xxxx and PID_xxxx the DeviceID     *)
(* must contain, if any, and whether it must contain USB.                  *)
Where(vid, pid, usb_only) == [vid |-> vid, pid |-> pid, usb_only |-> usb_only]

Matches(e, where) ==
  /\ where.vid.some => e.DeviceID.vid = where.vid.val
  /\ where.pid.some => e.DeviceID.pid = where.pid.val
  /\ where.usb_only => e.DeviceID.enumerator = "USB"

(* raw_query on a connection that works: the matching records, in the      *)
(* database's order.                                                       *)
raw_query(db, where) ==
  LET Selected(e) == Matches(e, where) IN SelectSeq(db, Selected)

(* lib.rs 502-523: check_winusb_driver once the device was found on the    *)
(* bus.                                                                    *)
check_winusb_query(db, wmi, vendor_id, product_id) ==
  IF wmi = "init_err" THEN Err(<<"Failed to initialize WMI: ", "wmi error">>)
  ELSE IF wmi = "query_err" THEN Err(<<"wmi error">>)
  ELSE LET devices == raw_query(db, Where(Some(Hex4(vendor_id)),
                                          Some(Hex4(product_id)), FALSE))
       IN  Ok(\E k \in 1..Len(devices) :
                /\ devices[k].DriverProvider.some
                /\ contains_WinUSB(devices[k].DriverProvider.val))

(* lib.rs 417-424 *)
is_xinput_installed(sys) == sys.dll # "none"

----------------------------------------------------------------------------
(* Status Aggregator: get_device_status, lib.rs 279-326.  The call blocks  *)
(* in one system call after another; devices come and go in between.       *)

AllFalseStatus ==
  [ default_mode_connected |-> FALSE,
    config_mode_connected |-> FALSE,
    bootsel_mode_connected |-> FALSE,
    switch_mode_connected |-> FALSE,
    xinput_installed |-> FALSE,
    gamecube_adapter_connected |-> FALSE,
    winusb_installed |-> FALSE ]

(* lib.rs 280-285 *)
StatusBatch ==
  << <<DEVICES.default_mode.vid, DEVICES.default_mode.pid>>,
     <<DEVICES.config_mode.vid, DEVICES.config_mode.pid>>,
     <<DEVICES.bootsel_mode.vid, DEVICES.bootsel_mode.pid>>,
     <<DEVICES.switch_mode.vid, DEVICES.switch_mode.pid>> >>

(* lib.rs 304-312 *)
BuildStatus(connected, xinput_installed, gamecube_adapter_connected, winusb_installed) ==
  [ default_mode_connected |-> connected[1],
    config_mode_connected |-> connected[2],
    bootsel_mode_connected |-> connected[3],
    switch_mode_connected |-> connected[4],
    xinput_installed |-> xinput_installed,
    gamecube_adapter_connected |-> gamecube_adapter_connected,
    winusb_installed |-> winusb_installed ]

(* lib.rs 287 *)
StatusScanBatch ==
  /\ st.pc = "idle"
  /\ \E usb \in UsbOutcomes :
       st' = [pc |-> "xinput",
              failed |-> IF usb = "ok" THEN {} ELSE {"batch"},
              connected |-> is_device_connected_batch(bus, usb, StatusBatch)]
  /\ UNCHANGED <<bus, drvdb, sysdir, exedir, scratch, last, written>>

(* lib.rs 288 *)
StatusXInput ==
  /\ st.pc = "xinput"
  /\ st' = [pc |-> "winusb_scan",
            failed |-> st.failed,
            connected |-> st.connected,
            xinput_installed |-> is_xinput_installed(sysdir)]
  /\ UNCHANGED <<bus, drvdb, sysdir, exedir, scratch, last, written>>

(* lib.rs 289 with 484-500: check_winusb_driver's own bus scan.            *)
StatusWinusbScan ==
  /\ st.pc = "winusb_scan"
  /\ \E usb \in UsbOutcomes :
       LET found == is_connected(bus, usb, DEVICES.gamecube_mode.vid,
                                 DEVICES.gamecube_mode.pid)
           failed == st.failed \cup (IF usb = "ok" THEN {} ELSE {"winusb"})
       IN  st' = [pc |-> IF found THEN "winusb_query" ELSE "gamecube",
                  failed |-> failed,
                  connected |-> st.connected,
                  xinput_installed |-> st.xinput_installed,
                  winusb_installed |-> FALSE]
  /\ UNCHANGED <<bus, drvdb, sysdir, exedir, scratch, last, written>>

(* lib.rs 289 with 502-523, and the unwrap_or of 317-325 when it is Err.   *)
StatusWinusbQuery ==
  /\ st.pc = "winusb_query"
  /\ \E wmi \in WmiOutcomes :
       LET r == check_winusb_query(drvdb, wmi, DEVICES.gamecube_mode.vid,
                                   DEVICES.gamecube_mode.pid)
       IN  IF r.ok
           THEN st' = [pc |-> "gamecube",
                       failed |-> st.failed,
                       connected |-> st.connected,
                       xinput_installed |-> st.xinput_installed,
                       winusb_installed |-> r.val]
           ELSE st' = [pc |-> "done",
                       failed |-> st.failed \cup {"winusb"},
                       connected |-> st.connected,
                       xinput_installed |-> st.xinput_installed,
                       status |-> AllFalseStatus]
  /\ UNCHANGED <<bus, drvdb, sysdir, exedir, scratch, last, written>>

(* lib.rs 290-312 *)
StatusGamecube ==
  /\ st.pc = "gamecube"
  /\ \E usb \in UsbOutcomes :
       LET gamecube_adapter_connected ==
             is_connected(bus, usb, DEVICES.gamecube_mode.vid, DEVICES.gamecube_mode.pid)
       IN  st' = [pc |-> "done",
                  failed |-> st.failed \cup (IF usb = "ok" THEN {} ELSE {"gamecube"}),
                  connected |-> st.connected,
                  xinput_installed |-> st.xinput_installed,
                  status |-> BuildStatus(st.connected, st.xinput_installed,
                                         gamecube_adapter_connected,
                                         st.winusb_installed)]
  /\ UNCHANGED <<bus, drvdb, sysdir, exedir, scratch, last, written>>

(* The DeviceStatus is handed to the poll loop. *)
StatusReturn ==
  /\ st.pc = "done"
  /\ st' = [pc |-> "idle"]
  /\ UNCHANGED <<bus, drvdb, sysdir, exedir, scratch, last, written>>

(* The driver bound to the GameCube adapter changes (another installer,    *)
(* Device Manager, a completed pnputil run).                               *)
GamecubeEntity(provider) ==
  PnPEntity("USB", VID_GAMECUBE, PID_GAMECUBE, Some(<<"GameCube", "Adapter">>), provider)

StatusDbs ==
  { <<>>,
    <<GamecubeEntity(None)>>,
    <<GamecubeEntity(Some(WinUsbProvider))>>,
    <<GamecubeEntity(Some(GenericProvider))>> }

DriverDbChange(dbs) ==
  /\ last = NoCall
  /\ \E db \in dbs \ {drvdb} : drvdb' = db
  /\ UNCHANGED <<bus, sysdir, exedir, scratch, last, written, st>>

StatusDevs ==
  { Device(VID_GAMECUBE, PID_GAMECUBE, TRUE),
    Device(VID_GAMECUBE, PID_GAMECUBE, FALSE),
    Device(VID_DEFAULT, PID_DEFAULT, TRUE),
    Device(VID_PICO, PID_BOOTSEL, TRUE) }

InitStatus ==
  /\ bus = <<>>
  /\ drvdb = <<>>
  /\ \E dll \in {"system", "none"} : sysdir = [dll |-> dll, bak |-> "none"]
  /\ exedir = BareExeDir
  /\ scratch = EmptyScratch
  /\ last = NoCall
  /\ written = NoFile
  /\ st = [pc |-> "idle"]

NextStatus ==
  \/ Attach(StatusDevs)
  \/ Detach
  \/ DriverDbChange(StatusDbs)
  \/ StatusScanBatch
  \/ StatusXInput
  \/ StatusWinusbScan
  \/ StatusWinusbQuery
  \/ StatusGamecube
  \/ StatusReturn

SpecStatus == InitStatus /\ [][NextStatus]_vars

(* C1: get_device_status isolates the failure of a sub-check.  When the    *)
(* WinUSB driver check is the only sub-check that fails (its bus scan, the *)
(* WMI initialisation or the WMI query), the four mode flags are still the *)
(* batch scan's answers and xinput_installed is still the DLL check's      *)
(* answer.                                                                 *)
C1_Isolation ==
  (st.pc = "done" /\ st.failed = {"winusb"}) =>
    /\ st.status.default_mode_connected = st.connected[1]
    /\ st.status.config_mode_connected = st.connected[2]
    /\ st.status.bootsel_mode_connected = st.connected[3]
    /\ st.status.switch_mode_connected = st.connected[4]
    /\ st.status.xinput_installed = st.xinput_installed

(* C7: a returned DeviceStatus reports winusb_installed only together with *)
(* gamecube_adapter_connected; stated here for the calls in which every    *)
(* bus scan and the driver query succeed, so that only the adapter's       *)
(* coming and going during the call is left to break it.                   *)
C7_Consistent ==
  (st.pc = "done" /\ st.failed = {}) =>
    (st.status.winusb_installed => st.status.gamecube_adapter_connected)

----------------------------------------------------------------------------
(* Privilege probe and the XInput Driver Manager *)

(* Outcomes of Command::output() for a subprocess.                         *)
ExitOutcomes == {"exit_0", "exit_nonzero", "spawn_err"}

(* The probe taking any exit of `net session` for success. *)
check_admin_rights_any_exit(net) == net # "spawn_err"

(* lib.rs 426-432: `net session` ran and exited with success.              *)
check_admin_rights(net) == net = "exit_0"

(* Uninstall by deleting the DLL instead of renaming it. *)
uninstall_xinput_driver_delete(sys, net, rename_ok) ==
  IF ~check_admin_rights(net)
  THEN [result |-> Err(<<"Administrator privileges required">>), sys |-> sys]
  ELSE IF sys.dll # "none"
  THEN IF rename_ok
       THEN [result |-> Ok(<<>>), sys |-> [dll |-> "none", bak |-> sys.bak]]
       ELSE [result |-> Err(<<"Failed to rename xinput1_4.dll: ", "io error">>),
             sys |-> sys]
  ELSE [result |-> Ok(<<>>), sys |-> sys]

(* lib.rs 434-451.  sys is System32 before the call; the answer is the     *)
(* Result and System32 after it.  std::fs::rename replaces an existing     *)
(* destination; a failed rename moves nothing.                             *)
uninstall_xinput_driver(sys, net, rename_ok) ==
  IF ~check_admin_rights(net)
  THEN [result |-> Err(<<"Administrator privileges required">>), sys |-> sys]
  ELSE IF sys.dll # "none"
  THEN IF rename_ok
       THEN [result |-> Ok(<<>>), sys |-> [dll |-> "none", bak |-> sys.dll]]
       ELSE [result |-> Err(<<"Failed to rename xinput1_4.dll: ", "io error">>),
             sys |-> sys]
  ELSE [result |-> Ok(<<>>), sys |-> sys]

(* Reinstall that restores the .bak sibling when there is one, and copies  *)
(* the bundled DLL only otherwise.                                         *)
reinstall_xinput_driver_from_backup(sys, exe, net, copy_ok) ==
  IF ~check_admin_rights(net)
  THEN [result |-> Err(<<"Administrator privileges required">>), sys |-> sys]
  ELSE IF sys.bak # "none" /\ copy_ok
  THEN [result |-> Ok(<<>>), sys |-> [dll |-> sys.bak, bak |-> "none"]]
  ELSE IF exe.xinput # "none" /\ copy_ok
  THEN [result |-> Ok(<<>>), sys |-> [dll |-> exe.xinput, bak |-> sys.bak]]
  ELSE [result |-> Err(<<"Failed to copy xinput1_4.dll: ", "io error">>), sys |-> sys]

(* lib.rs 453-475.  std::fs::copy fails when the source is missing or the  *)
(* destination cannot be written, and then leaves the destination as it    *)
(* was.                                                                    *)
reinstall_xinput_driver(sys, exe, net, copy_ok) ==
  IF ~check_admin_rights(net)
  THEN [result |-> Err(<<"Administrator privileges required">>), sys |-> sys]
  ELSE IF exe.xinput # "none" /\ copy_ok
  THEN [result |-> Ok(<<>>), sys |-> [dll |-> exe.xinput, bak |-> sys.bak]]
  ELSE [result |-> Err(<<"Failed to copy xinput1_4.dll: ", "io error">>), sys |-> sys]

(* DriverOperationResult of lib.rs 328-340, 342-354 and 394-403 *)
OperationResult(r, done, failed) ==
  IF r.ok
  THEN [success |-> TRUE, message |-> <<done>>]
  ELSE [success |-> FALSE, message |-> <<failed>> \o r.err]

(* lib.rs 328-340.  A command is called once the previous result was       *)
(* handed over.                                                            *)
uninstall_xinput ==
  /\ last = NoCall
  /\ \E net \in ExitOutcomes, rename_ok \in BOOLEAN :
       LET r == uninstall_xinput_driver(sysdir, net, rename_ok)
       IN  /\ sysdir' = r.sys
           /\ last' = [op |-> "uninstall_xinput",
                       in |-> [net |-> net, rename_ok |-> rename_ok],
                       pre |-> [sys |-> sysdir, scratch |-> scratch],
                       calls |-> <<>>,
                       result |-> OperationResult(r.result,
                                    "XInput driver successfully uninstalled",
                                    "Failed to uninstall XInput driver: ")]
  /\ UNCHANGED <<bus, drvdb, exedir, scratch, written, st>>

(* lib.rs 342-354 *)
reinstall_xinput ==
  /\ last = NoCall
  /\ \E net \in ExitOutcomes, copy_ok \in BOOLEAN :
       LET r == reinstall_xinput_driver(sysdir, exedir, net, copy_ok)
       IN  /\ sysdir' = r.sys
           /\ last' = [op |-> "reinstall_xinput",
                       in |-> [net |-> net, copy_ok |-> copy_ok],
                       pre |-> [sys |-> sysdir, scratch |-> scratch],
                       calls |-> <<>>,
                       result |-> OperationResult(r.result,
                                    "XInput driver successfully reinstalled",
                                    "Failed to reinstall XInput driver: ")]
  /\ UNCHANGED <<bus, drvdb, exedir, scratch, written, st>>

----------------------------------------------------------------------------
(* WinUSB Driver Installer: Config, lib.rs 23-136 *)

MakeConfig(vendor_id, product_id, description, manufacturer) ==
  [vendor_id |-> vendor_id, product_id |-> product_id,
   description |-> description, manufacturer |-> manufacturer]

(* lib.rs 387-392: the configuration install_winusb builds.                *)
GamecubeConfig ==
  MakeConfig(DEVICES.gamecube_mode.vid, DEVICES.gamecube_mode.pid,
             DEVICES.gamecube_mode.name, "Nintendo")

(* The text of winusb_template.inf, as a list of pieces; a piece is a list *)
(* of strings, and the four placeholders are pieces of their own.          *)
TemplateText ==
  << <<"[Version] ... USB\\VID_">>, <<"{{VID}}">>, <<"&PID_">>, <<"{{PID}}">>,
     <<"DeviceName=">>, <<"{{DESCRIPTION}}">>,
     <<"ManufacturerName=">>, <<"{{MANUFACTURER}}">> >>

(* str::replace on the pieces: every occurrence of `from` becomes `to`.    *)
replace(text, from, to) ==
  [i \in 1..Len(text) |-> IF text[i] = from THEN to ELSE text[i]]

(* lib.rs 66-70 *)
RenderInf(template_content, self) ==
  replace(
    replace(
      replace(
        replace(template_content, <<"{{VID}}">>, Hex4(self.vendor_id)),
        <<"{{PID}}">>, Hex4(self.product_id)),
      <<"{{DESCRIPTION}}">>, <<self.description>>),
    <<"{{MANUFACTURER}}">>, <<self.manufacturer>>)

(* PrepareDriverError, lib.rs 185-200, with its Display text.              *)
DriverNotFound == [kind |-> "DriverNotFound", text |-> <<"Driver files not found">>]
PermissionDenied == [kind |-> "PermissionDenied", text |-> <<"Permission denied">>]
UnknownError(e) == [kind |-> "UnknownError", text |-> <<"Unknown error: ">> \o e]

(* The file-system call of prepare_driver that fails, if it is made.       *)
PrepareIo == {"ok", "create_dir_all", "read_to_string", "write", "copy_1", "copy_2"}

(* lib.rs 76-85: the loop over the two co-installers, scr being the        *)
(* scratch directory with the INF written.                                 *)
CopyCompanions(scr, exe, io) ==
  IF ~exe.co1
  THEN [result |-> Err(DriverNotFound), scratch |-> scr]
  ELSE IF io = "copy_1"
  THEN [result |-> Err(UnknownError(<<"Failed to copy WinUSBCoInstaller2.dll: ", "io error">>)),
        scratch |-> scr]
  ELSE IF ~exe.co2
  THEN [result |-> Err(DriverNotFound), scratch |-> [scr EXCEPT !.co1 = TRUE]]
  ELSE IF io = "copy_2"
  THEN [result |-> Err(UnknownError(<<"Failed to copy WdfCoInstaller01011.dll: ", "io error">>)),
        scratch |-> [scr EXCEPT !.co1 = TRUE]]
  ELSE [result |-> Ok(<<>>), scratch |-> [scr EXCEPT !.co1 = TRUE, !.co2 = TRUE]]

(* lib.rs 32-88.  scr and exe are the scratch directory and the            *)
(* executable's directory before the call; the answer is the Result, the   *)
(* scratch directory after the call, and whether the INF was written.      *)
prepare_driver(self, scr, exe, net, io) ==
  IF ~check_admin_rights(net)
  THEN [result |-> Err(PermissionDenied), scratch |-> scr, wrote |-> FALSE]
  ELSE IF ~scr.dir /\ io = "create_dir_all"
  THEN [result |-> Err(UnknownError(<<"Failed to create temp directory: ", "io error">>)),
        scratch |-> scr, wrote |-> FALSE]
  ELSE
    LET temp_dir == [scr EXCEPT !.dir = TRUE]
    IN  IF ~exe.resources
        THEN [result |-> Err(DriverNotFound), scratch |-> temp_dir, wrote |-> FALSE]
        ELSE IF ~exe.template.exists
        THEN [result |-> Err(DriverNotFound), scratch |-> temp_dir, wrote |-> FALSE]
        ELSE IF io = "read_to_string"
        THEN [result |-> Err(UnknownError(<<"Failed to read INF template: ", "io error">>)),
              scratch |-> temp_dir, wrote |-> FALSE]
        ELSE IF io = "write"
        THEN [result |-> Err(UnknownError(<<"Failed to write INF file: ", "io error">>)),
              scratch |-> temp_dir, wrote |-> FALSE]
        ELSE
          LET inf_content == RenderInf(exe.template.content, self)
              c == CopyCompanions([temp_dir EXCEPT !.inf = File(inf_content)], exe, io)
          IN  [result |-> c.result, scratch |-> c.scratch, wrote |-> TRUE]

(* Outcomes of running pnputil: how it ended and what it wrote to stderr.  *)
PnputilOutcomes ==
  { [status |-> "exit_0", stderr |-> ""],
    [status |-> "exit_nonzero", stderr |-> "Failed to add driver package"],
    [status |-> "exit_nonzero", stderr |-> "Access is denied"],
    [status |-> "spawn_err", stderr |-> ""] }

(* lib.rs 123 *)
HardwareId(self) ==
  <<"USB\\VID_">> \o Hex4(self.vendor_id) \o <<"&PID_">> \o Hex4(self.product_id)

(* The pnputil/devcon runs with devcon's failure propagated. *)
run_pnputil_devcon_strict(self, scr, exe, pnputil, devcon) ==
  LET run_pnputil == [tool |-> "pnputil", inf |-> scr.inf,
                      hw_id |-> <<>>, status |-> pnputil.status]
      run_devcon == [tool |-> "devcon", inf |-> scr.inf,
                     hw_id |-> HardwareId(self), status |-> devcon]
  IN  IF pnputil.status = "spawn_err"
      THEN [result |-> Err(<<"Failed to execute pnputil: ", "io error">>),
            calls |-> <<run_pnputil>>]
      ELSE IF pnputil.status # "exit_0"
      THEN [result |-> Err(<<"pnputil failed: ", pnputil.stderr>>),
            calls |-> <<run_pnputil>>]
      ELSE IF exe.resources /\ exe.devcon
      THEN [result |-> IF devcon = "exit_0" THEN Ok(<<>>)
                       ELSE Err(<<"devcon failed: ", "io error">>),
            calls |-> <<run_pnputil, run_devcon>>]
      ELSE [result |-> Ok(<<>>), calls |-> <<run_pnputil>>]

(* lib.rs 102-135: install_driver from the pnputil run on.  The answer is  *)
(* the Result and the subprocesses started, in order, each with the INF it *)
(* is pointed at.                                                          *)
run_pnputil_devcon(self, scr, exe, pnputil, devcon) ==
  LET run_pnputil == [tool |-> "pnputil", inf |-> scr.inf,
                      hw_id |-> <<>>, status |-> pnputil.status]
      run_devcon == [tool |-> "devcon", inf |-> scr.inf,
                     hw_id |-> HardwareId(self), status |-> devcon]
  IN  IF pnputil.status = "spawn_err"
      THEN [result |-> Err(<<"Failed to execute pnputil: ", "io error">>),
            calls |-> <<run_pnputil>>]
      ELSE IF pnputil.status # "exit_0"
      THEN [result |-> Err(<<"pnputil failed: ", pnputil.stderr>>),
            calls |-> <<run_pnputil>>]
      ELSE IF exe.resources /\ exe.devcon
      THEN [result |-> Ok(<<>>), calls |-> <<run_pnputil, run_devcon>>]
      ELSE [result |-> Ok(<<>>), calls |-> <<run_pnputil>>]

(* install_driver rendering the INF anew from its own configuration        *)
(* instead of requiring the prepared one.                                  *)
install_driver_rerender(self, scr, exe, net, pnputil, devcon) ==
  IF ~check_admin_rights(net)
  THEN [result |-> Err(<<"Administrator privileges required">>), calls |-> <<>>]
  ELSE IF ~exe.template.exists
  THEN [result |-> Err(<<"Driver INF file not found. Did you call prepare_driver first?">>),
        calls |-> <<>>]
  ELSE run_pnputil_devcon(self,
                          [scr EXCEPT !.inf = File(RenderInf(exe.template.content, self))],
                          exe, pnputil, devcon)

(* lib.rs 90-135 *)
install_driver(self, scr, exe, net, pnputil, devcon) ==
  IF ~check_admin_rights(net)
  THEN [result |-> Err(<<"Administrator privileges required">>), calls |-> <<>>]
  ELSE IF ~scr.inf.exists
  THEN [result |-> Err(<<"Driver INF file not found. Did you call prepare_driver first?">>),
        calls |-> <<>>]
  ELSE run_pnputil_devcon(self, scr, exe, pnputil, devcon)

(* lib.rs 406-415 *)
install_winusb_driver(config, scr, exe, in) ==
  LET p == prepare_driver(config, scr, exe, in.net2, in.io)
  IN  IF p.result.ok
      THEN LET i == install_driver(config, p.scratch, exe, in.net3, in.pnputil, in.devcon)
           IN  [result |-> IF i.result.ok
                           THEN Ok(<<>>)
                           ELSE Err(<<"Failed to install driver: ">> \o i.result.err),
                scratch |-> p.scratch, wrote |-> p.wrote, calls |-> i.calls,
                entered |-> <<"prepare_driver", "install_driver">>,
                prepared |-> p.result, installed |-> i.result]
      ELSE [result |-> IF p.result.err.kind = "DriverNotFound"
                       THEN Err(<<"WinUSB driver files not found">>)
                       ELSE Err(<<"Failed to prepare driver: ">> \o p.result.err.text),
            scratch |-> p.scratch, wrote |-> p.wrote, calls |-> <<>>,
            entered |-> <<"prepare_driver">>,
            prepared |-> p.result, installed |-> Err(<<"not called">>)]

(* lib.rs 356-404.  in holds what the host answers during the call.        *)
install_winusb(device_list, scr, exe, in) ==
  LET gamecube_mode == DEVICES.gamecube_mode
      nothing == [scratch |-> scr, wrote |-> FALSE, calls |-> <<>>, entered |-> <<>>,
                  prepared |-> Err(<<"not called">>), installed |-> Err(<<"not called">>)]
  IN  IF ~check_admin_rights(in.net1)
      THEN [result |-> [success |-> FALSE,
                        message |-> <<"Administrator privileges required">>]] @@ nothing
      ELSE IF ~is_connected(device_list, in.usb, gamecube_mode.vid, gamecube_mode.pid)
      THEN [result |-> [success |-> FALSE,
                        message |-> <<"GameCube adapter not found. Please make sure it is connected and in the correct mode.">>]]
           @@ nothing
      ELSE
        LET r == install_winusb_driver(GamecubeConfig, scr, exe, in)
        IN  [result |-> OperationResult(r.result,
                          "WinUSB driver successfully installed for GameCube adapter",
                          "Failed to install WinUSB driver: "),
             scratch |-> r.scratch, wrote |-> r.wrote, calls |-> r.calls,
             entered |-> r.entered, prepared |-> r.prepared, installed |-> r.installed]

----------------------------------------------------------------------------
(* Spec: the mutating operations, called one after another on a host whose *)
(* bus changes between calls.                                              *)

(* What the host answers during one call.  An answer the call cannot come  *)
(* to ask for, given the earlier answers, is fixed to success.             *)
DefaultInstall(in) ==
  in.net3 = "exit_0" /\ in.pnputil.status = "exit_0" /\ in.devcon = "exit_0"

DefaultPrepare(in) == in.net2 = "exit_0" /\ in.io = "ok"

CanonInstall(in) ==
  /\ in.net3 # "exit_0" => DefaultInstall([in EXCEPT !.net3 = "exit_0"])
  /\ in.pnputil.status # "exit_0" => in.devcon = "exit_0"

CanonPrepare(in) == in.net2 # "exit_0" => in.io = "ok"

InstallDriverInputs ==
  { in \in [net3 : ExitOutcomes, pnputil : PnputilOutcomes, devcon : ExitOutcomes] :
      CanonInstall(in) }

PrepareDriverInputs ==
  { in \in [net2 : ExitOutcomes, io : PrepareIo] : CanonPrepare(in) }

InstallWinusbInputs ==
  { in \in [net1 : ExitOutcomes, usb : UsbOutcomes, net2 : ExitOutcomes, io : PrepareIo,
            net3 : ExitOutcomes, pnputil : PnputilOutcomes, devcon : ExitOutcomes] :
      /\ in.net1 # "exit_0" => in.usb = "ok"
      /\ (in.net1 # "exit_0" \/ in.usb # "ok") => DefaultPrepare(in)
      /\ CanonPrepare(in)
      /\ (in.net1 # "exit_0" \/ in.usb # "ok" \/ in.net2 # "exit_0") => DefaultInstall(in)
      /\ CanonInstall(in) }

(* The configurations Config::prepare_driver and Config::install_driver    *)
(* are called with.                                                        *)
SwitchConfig ==
  MakeConfig(DEVICES.switch_mode.vid, DEVICES.switch_mode.pid,
             DEVICES.switch_mode.name, "HORI")

Configs == {GamecubeConfig, SwitchConfig}

(* Config::prepare_driver called on its own, lib.rs 32-88 *)
CallPrepareDriver ==
  /\ last = NoCall
  /\ \E self \in Configs, in \in PrepareDriverInputs :
       LET p == prepare_driver(self, scratch, exedir, in.net2, in.io)
       IN  /\ scratch' = p.scratch
           /\ written' = IF p.wrote THEN p.scratch.inf ELSE written
           /\ last' = [op |-> "prepare_driver",
                       self |-> self,
                       in |-> in,
                       pre |-> [sys |-> sysdir, scratch |-> scratch],
                       calls |-> <<>>,
                       result |-> p.result]
  /\ UNCHANGED <<bus, drvdb, sysdir, exedir, st>>

(* Config::install_driver called on its own, lib.rs 90-135 *)
CallInstallDriver ==
  /\ last = NoCall
  /\ \E self \in Configs, in \in InstallDriverInputs :
       LET i == install_driver(self, scratch, exedir, in.net3, in.pnputil, in.devcon)
       IN  last' = [op |-> "install_driver",
                    self |-> self,
                    in |-> in,
                    pre |-> [sys |-> sysdir, scratch |-> scratch],
                    calls |-> i.calls,
                    result |-> i.result]
  /\ UNCHANGED <<bus, drvdb, sysdir, exedir, scratch, written, st>>

(* The install_winusb command, lib.rs 356-404 *)
CallInstallWinusb ==
  /\ last = NoCall
  /\ \E in \in InstallWinusbInputs :
       LET r == install_winusb(bus, scratch, exedir, in)
       IN  /\ scratch' = r.scratch
           /\ written' = IF r.wrote THEN r.scratch.inf ELSE written
           /\ last' = [op |-> "install_winusb",
                       in |-> in,
                       pre |-> [sys |-> sysdir, scratch |-> scratch],
                       calls |-> r.calls,
                       entered |-> r.entered,
                       prepared |-> r.prepared,
                       installed |-> r.installed,
                       result |-> r.result]
  /\ UNCHANGED <<bus, drvdb, sysdir, exedir, st>>

FullExeDir ==
  [xinput |-> "bundled", resources |-> TRUE, template |-> File(TemplateText),
   co1 |-> TRUE, co2 |-> TRUE, devcon |-> TRUE]

(* The installations the program may find itself in. *)
Installations ==
  { FullExeDir,
    BareExeDir,
    [FullExeDir EXCEPT !.xinput = "none"],
    [FullExeDir EXCEPT !.template = NoFile],
    [FullExeDir EXCEPT !.co1 = FALSE],
    [FullExeDir EXCEPT !.co2 = FALSE],
    [FullExeDir EXCEPT !.devcon = FALSE] }

OpsDevs ==
  { Device(VID_GAMECUBE, PID_GAMECUBE, TRUE),
    Device(VID_GAMECUBE, PID_GAMECUBE, FALSE),
    Device(VID_GAMECUBE, PID_BOOTSEL, TRUE) }

Init ==
  /\ bus = <<>>
  /\ drvdb = <<>>
  /\ sysdir = [dll |-> "system", bak |-> "none"]
  /\ exedir \in Installations
  /\ scratch = EmptyScratch
  /\ last = NoCall
  /\ written = NoFile
  /\ st = [pc |-> "idle"]

Next ==
  \/ Attach(OpsDevs)
  \/ Detach
  \/ Return
  \/ uninstall_xinput
  \/ reinstall_xinput
  \/ CallPrepareDriver
  \/ CallInstallDriver
  \/ CallInstallWinusb

Spec == Init /\ [][Next]_vars

----------------------------------------------------------------------------
(* Properties of the mutating operations, under Spec *)

GamecubeAttached(device_list) ==
  \E k \in 1..Len(device_list) :
    /\ device_list[k].vid = VID_GAMECUBE
    /\ device_list[k].pid = PID_GAMECUBE

NotFoundMessage ==
  <<"GameCube adapter not found. Please make sure it is connected and in the correct mode.">>

(* The files of the scratch directory. *)
Contents(scr) == <<scr.inf, scr.co1, scr.co2>>

(* C2 as stated: whenever no attached device has the GameCube identity,    *)
(* install_winusb answers success=false with the device-not-found message, *)
(* never enters prepare_driver, leaves the scratch directory as it was and *)
(* starts neither pnputil nor devcon.                                      *)
C2_RefusesWithNotFound ==
  (last.op = "install_winusb" /\ ~GamecubeAttached(bus)) =>
    /\ ~last.result.success
    /\ last.result.message = NotFoundMessage
    /\ last.entered = <<>>
    /\ scratch = last.pre.scratch
    /\ last.calls = <<>>

(* C2 amended: whenever no attached device has the GameCube identity,      *)
(* install_winusb answers success=false, never enters prepare_driver,      *)
(* leaves the scratch directory as it was and starts neither pnputil nor   *)
(* devcon; its message is the device-not-found message when the admin      *)
(* probe succeeded, and the administrator-privileges message when it did   *)
(* not.                                                                    *)
C2_Refuses ==
  (last.op = "install_winusb" /\ ~GamecubeAttached(bus)) =>
    /\ ~last.result.success
    /\ last.result.message =
         IF last.in.net1 = "exit_0"
         THEN NotFoundMessage
         ELSE <<"Administrator privileges required">>
    /\ last.entered = <<>>
    /\ scratch = last.pre.scratch
    /\ last.calls = <<>>

(* A complete installation, admin rights, a device with the adapter's VID  *)
(* but another PID on the bus: install_winusb answers not-found.           *)
C2_Witness ==
  /\ last.op = "install_winusb"
  /\ last.in.net1 = "exit_0" /\ last.in.usb = "ok"
  /\ exedir = FullExeDir
  /\ bus = <<Device(VID_GAMECUBE, PID_BOOTSEL, TRUE)>>
  /\ last.result = [success |-> FALSE, message |-> NotFoundMessage]

(* C3 as stated: with admin rights, an uninstall that finds the DLL        *)
(* succeeds, leaves the system path empty and the .bak sibling holding     *)
(* what was at the system path; an uninstall that finds no DLL succeeds    *)
(* and changes no file.                                                    *)
C3_UninstallAlwaysSucceeds ==
  (last.op = "uninstall_xinput" /\ last.in.net = "exit_0") =>
    /\ last.result.success
    /\ last.pre.sys.dll # "none" =>
         sysdir = [dll |-> "none", bak |-> last.pre.sys.dll]
    /\ last.pre.sys.dll = "none" => sysdir = last.pre.sys

(* C3 amended: with admin rights, an uninstall that finds the DLL and      *)
(* whose rename does not fail succeeds, leaves the system path empty and   *)
(* the .bak sibling holding what was at the system path; if the rename     *)
(* fails, the uninstall fails and changes no file; an uninstall that finds *)
(* no DLL succeeds and changes no file.                                    *)
C3_UninstallIdempotent ==
  (last.op = "uninstall_xinput" /\ last.in.net = "exit_0") =>
    /\ (last.pre.sys.dll # "none" /\ last.in.rename_ok) =>
         /\ last.result.success
         /\ sysdir = [dll |-> "none", bak |-> last.pre.sys.dll]
    /\ (last.pre.sys.dll # "none" /\ ~last.in.rename_ok) =>
         /\ ~last.result.success
         /\ sysdir = last.pre.sys
    /\ last.pre.sys.dll = "none" =>
         /\ last.result.success
         /\ sysdir = last.pre.sys

(* The second uninstall: the DLL is gone, the backup made by the first     *)
(* uninstall is in place, and the call succeeds.                           *)
C3_Witness ==
  /\ last.op = "uninstall_xinput"
  /\ last.in.net = "exit_0"
  /\ last.pre.sys = [dll |-> "none", bak |-> "system"]
  /\ last.result.success
  /\ sysdir = [dll |-> "none", bak |-> "system"]

(* C6: when the admin probe of a mutating operation fails (net session     *)
(* does not exit with success), the operation answers failure, no file has *)
(* changed and no subprocess was started; this holds for the commands      *)
(* uninstall_xinput, reinstall_xinput and install_winusb, for              *)
(* Config::prepare_driver and Config::install_driver called on their own,  *)
(* and for the two as called from install_winusb.                          *)
C6_PrivilegeGated ==
  /\ (last.op \in {"uninstall_xinput", "reinstall_xinput"} /\ last.in.net # "exit_0") =>
       /\ ~last.result.success
       /\ sysdir = last.pre.sys /\ scratch = last.pre.scratch
       /\ last.calls = <<>>
  /\ (last.op = "install_winusb" /\ last.in.net1 # "exit_0") =>
       /\ ~last.result.success
       /\ sysdir = last.pre.sys /\ scratch = last.pre.scratch
       /\ last.calls = <<>>
  /\ (last.op = "prepare_driver" /\ last.in.net2 # "exit_0") =>
       /\ last.result = Err(PermissionDenied)
       /\ sysdir = last.pre.sys /\ scratch = last.pre.scratch
       /\ last.calls = <<>>
  /\ (last.op = "install_driver" /\ last.in.net3 # "exit_0") =>
       /\ ~last.result.ok
       /\ sysdir = last.pre.sys /\ scratch = last.pre.scratch
       /\ last.calls = <<>>
  /\ (last.op = "install_winusb" /\ last.entered # <<>> /\ last.in.net2 # "exit_0") =>
       /\ last.prepared = Err(PermissionDenied)
       /\ ~last.result.success
       /\ sysdir = last.pre.sys /\ scratch = last.pre.scratch
       /\ last.calls = <<>>
  /\ (last.op = "install_winusb" /\ Len(last.entered) = 2 /\ last.in.net3 # "exit_0") =>
       /\ ~last.installed.ok
       /\ ~last.result.success
       /\ last.calls = <<>>

(* install_winusb on a complete installation with the adapter attached and *)
(* `net session` exiting non-zero: refused, nothing touched.               *)
C6_Witness ==
  /\ last.op = "install_winusb"
  /\ last.in.net1 = "exit_nonzero"
  /\ exedir = FullExeDir
  /\ bus = <<Device(VID_GAMECUBE, PID_GAMECUBE, TRUE)>>
  /\ ~last.result.success
  /\ scratch = EmptyScratch

(* C8: with admin rights, install_driver starts pnputil only if the INF is *)
(* in the scratch directory, and without it answers the INF-not-found      *)
(* error and starts nothing; every INF handed to pnputil or devcon, by     *)
(* install_driver on its own or within install_winusb, is the one          *)
(* prepare_driver wrote most recently.                                     *)
C8_InstallNeedsPreparedInf ==
  /\ (last.op = "install_driver" /\ last.in.net3 = "exit_0") =>
       IF last.pre.scratch.inf.exists
       THEN /\ last.calls # <<>>
            /\ last.calls[1].tool = "pnputil"
       ELSE /\ last.result =
                 Err(<<"Driver INF file not found. Did you call prepare_driver first?">>)
            /\ last.calls = <<>>
  /\ last.op \in {"install_driver", "install_winusb"} =>
       \A k \in 1..Len(last.calls) :
         /\ last.calls[k].inf.exists
         /\ last.calls[k].inf = written

(* install_driver of the Switch configuration hands pnputil the INF        *)
(* prepared for the GameCube configuration.                                *)
C8_Witness ==
  /\ last.op = "install_driver"
  /\ last.self = SwitchConfig
  /\ last.calls # <<>>
  /\ last.calls[1].tool = "pnputil"
  /\ last.calls[1].inf = File(RenderInf(TemplateText, GamecubeConfig))
  /\ last.calls[1].inf # File(RenderInf(TemplateText, SwitchConfig))

(* C9: a prepare_driver call that answers an error leaves the files of the *)
(* scratch directory as they were; a missing co-installer gives            *)
(* DriverNotFound with winusb_driver.inf neither written nor replaced.     *)
C9_FailedPrepareChangesNothing ==
  (last.op = "prepare_driver" /\ ~last.result.ok) =>
    Contents(scratch) = Contents(last.pre.scratch)

(* C10: once pnputil was started, it alone decides: if it could not be     *)
(* launched or exited non-zero, install_driver answers an error (with      *)
(* pnputil's stderr after a non-zero exit), devcon is not started and      *)
(* install_winusb answers success=false; if it exited with success,        *)
(* install_driver answers Ok and install_winusb success=true, whatever     *)
(* devcon does.                                                            *)
C10_PnputilDecides ==
  (last.op \in {"install_driver", "install_winusb"} /\ last.calls # <<>>) =>
    LET installed == IF last.op = "install_driver" THEN last.result ELSE last.installed
    IN  /\ last.calls[1].tool = "pnputil"
        /\ last.calls[1].status = last.in.pnputil.status
        /\ last.in.pnputil.status # "exit_0" =>
             /\ ~installed.ok
             /\ Len(last.calls) = 1
             /\ last.in.pnputil.status = "exit_nonzero" =>
                  installed.err = <<"pnputil failed: ", last.in.pnputil.stderr>>
             /\ last.op = "install_winusb" =>
                  /\ ~last.result.success
                  /\ last.result.message =
                       <<"Failed to install WinUSB driver: ", "Failed to install driver: ">>
                         \o installed.err
        /\ last.in.pnputil.status = "exit_0" =>
             /\ installed = Ok(<<>>)
             /\ last.op = "install_winusb" => last.result.success
             /\ \A k \in 2..Len(last.calls) :
                  /\ last.calls[k].tool = "devcon"
                  /\ last.calls[k].status = last.in.devcon

(* install_winusb succeeds although devcon could not be launched.          *)
C10_Witness ==
  /\ last.op = "install_winusb"
  /\ Len(last.calls) = 2
  /\ last.calls[1].status = "exit_0"
  /\ last.calls[2].tool = "devcon"
  /\ last.calls[2].status = "spawn_err"
  /\ last.result.success

(* C11: with admin rights, reinstall_xinput takes the DLL from the bundled *)
(* copy next to the executable only.  When the bundled copy is there and   *)
(* the destination can be written, the call succeeds, the DLL at the       *)
(* system path is the bundled copy whatever was there before, the          *)
(* installed-check answers true and the .bak sibling is as it was; when    *)
(* the bundled copy is missing, the call fails and the system path and the *)
(* .bak sibling are as they were, also when a backup exists.               *)
C11_ReinstallFromBundle ==
  (last.op = "reinstall_xinput" /\ last.in.net = "exit_0") =>
    /\ (exedir.xinput # "none" /\ last.in.copy_ok) =>
         /\ last.result.success
         /\ sysdir.dll = exedir.xinput
         /\ is_xinput_installed(sysdir)
         /\ sysdir.bak = last.pre.sys.bak
    /\ exedir.xinput = "none" =>
         /\ ~last.result.success
         /\ sysdir = last.pre.sys

(* Reinstall after an uninstall: the backup holds the system's DLL, the    *)
(* system path is empty, and the call puts the bundled copy there and      *)
(* leaves the backup alone.                                                *)
C11_Witness ==
  /\ last.op = "reinstall_xinput"
  /\ last.in.net = "exit_0"
  /\ last.in.copy_ok
  /\ last.pre.sys = [dll |-> "none", bak |-> "system"]
  /\ exedir.xinput = "bundled"
  /\ last.result.success
  /\ sysdir = [dll |-> "bundled", bak |-> "system"]

----------------------------------------------------------------------------
(* Driver Provider Query: get_driver_info, lib.rs 536-630 *)

(* lib.rs 609-626: one WmiDeviceInfo record mapped to a DriverInfo.        *)
DriverInfo(device) ==
  [device_id |-> device.DeviceID,
   device_name |-> IF device.Name.some THEN device.Name.val
                   ELSE <<"Unknown", "Device">>,
   driver_provider |-> device.DriverProvider,
   driver_version |-> device.DriverVersion,
   driver_date |-> device.DriverDate,
   is_winusb |-> IF device.DriverProvider.some
                 THEN contains_WinUSB(device.DriverProvider.val)
                 ELSE FALSE]

(* lib.rs 565-581: the WHERE clause chosen from the two filters.           *)
InfoWhere(vendor_id, product_id) ==
  Where(IF vendor_id.some THEN Some(Hex4(vendor_id.val)) ELSE None,
        IF product_id.some THEN Some(Hex4(product_id.val)) ELSE None,
        ~vendor_id.some /\ ~product_id.some)

(* lib.rs 558-629: the part of get_driver_info that talks to WMI.  backend *)
(* lists what was asked of WMI: opening the connection, issuing the query. *)
query_driver_info(db, vendor_id, product_id, wmi, scanned) ==
  IF wmi = "init_err"
  THEN [result |-> Err(<<"Failed to initialize WMI: ", "wmi error">>),
        scanned |-> scanned,
        backend |-> <<"connect">>]
  ELSE IF wmi = "query_err"
  THEN [result |-> Err(<<"Failed to query WMI: ", "wmi error">>),
        scanned |-> scanned,
        backend |-> <<"connect", "query">>]
  ELSE LET devices == raw_query(db, InfoWhere(vendor_id, product_id))
       IN  [result |-> Ok([k \in 1..Len(devices) |-> DriverInfo(devices[k])]),
            scanned |-> scanned,
            backend |-> <<"connect", "query">>]

(* get_driver_info without the bus pre-check of lib.rs 538-556.            *)
get_driver_info_no_precheck(device_list, db, vendor_id, product_id, usb, wmi) ==
  query_driver_info(db, vendor_id, product_id, wmi, FALSE)

(* lib.rs 536-630.  scanned tells whether the bus was scanned.             *)
get_driver_info(device_list, db, vendor_id, product_id, usb, wmi) ==
  IF vendor_id.some /\ product_id.some
  THEN IF ~is_connected(device_list, usb, vendor_id.val, product_id.val)
       THEN [result |-> Ok(<<>>), scanned |-> TRUE, backend |-> <<>>]
       ELSE query_driver_info(db, vendor_id, product_id, wmi, TRUE)
  ELSE query_driver_info(db, vendor_id, product_id, wmi, FALSE)

(* The filters the front end passes. *)
InfoVids == {None, Some(VID_GAMECUBE), Some(VID_PICO)}
InfoPids == {None, Some(PID_GAMECUBE), Some(PID_BOOTSEL)}

(* The get_driver_info command.  An answer of the host the call does not   *)
(* come to ask for is fixed to success.                                    *)
CallGetDriverInfo ==
  /\ last = NoCall
  /\ \E vendor_id \in InfoVids, product_id \in InfoPids,
        usb \in UsbOutcomes, wmi \in WmiOutcomes :
       LET r == get_driver_info(bus, drvdb, vendor_id, product_id, usb, wmi)
       IN  /\ ~r.scanned => usb = "ok"
           /\ r.backend = <<>> => wmi = "ok"
           /\ last' = [op |-> "get_driver_info",
                       in |-> [vendor_id |-> vendor_id, product_id |-> product_id,
                               usb |-> usb, wmi |-> wmi],
                       pre |-> [sys |-> sysdir, scratch |-> scratch],
                       calls |-> <<>>,
                       scanned |-> r.scanned,
                       backend |-> r.backend,
                       result |-> r.result]
  /\ UNCHANGED <<bus, drvdb, sysdir, exedir, scratch, written, st>>

InfoDevs ==
  { Device(VID_GAMECUBE, PID_GAMECUBE, TRUE),
    Device(VID_GAMECUBE, PID_GAMECUBE, FALSE),
    Device(VID_PICO, PID_BOOTSEL, TRUE) }

(* Driver databases: the adapter bound to WinUSB, unbound next to a Pico   *)
(* in BOOTSEL mode, and seen through the HID enumerator only.              *)
InfoDbs ==
  { <<>>,
    <<GamecubeEntity(Some(WinUsbProvider))>>,
    <<GamecubeEntity(None),
      PnPEntity("USB", VID_PICO, PID_BOOTSEL, None, Some(GenericProvider))>>,
    <<PnPEntity("HID", VID_GAMECUBE, PID_GAMECUBE, Some(<<"HID", "Device">>),
                Some(GenericProvider))>> }

NextInfo ==
  \/ Attach(InfoDevs)
  \/ Detach
  \/ DriverDbChange(InfoDbs)
  \/ CallGetDriverInfo
  \/ Return

SpecInfo == InitIdle /\ [][NextInfo]_vars

(* The bus scan finds an attached device with exactly this pair.           *)
ScanFinds(usb, vid, pid) ==
  /\ usb = "ok"
  /\ \E k \in 1..Len(bus) :
       bus[k].desc_ok /\ bus[k].vid = vid /\ bus[k].pid = pid

(* C4 as stated: called with both filters, get_driver_info answers Ok with *)
(* an empty list, without opening a WMI connection or issuing a query,     *)
(* whenever the bus scan finds no device with that pair (also when the USB *)
(* context or the enumeration fails); called with at most one filter, it   *)
(* makes no bus scan and the query is always issued.                       *)
C4_QueryAlwaysIssued ==
  last.op = "get_driver_info" =>
    IF last.in.vendor_id.some /\ last.in.product_id.some
    THEN ~ScanFinds(last.in.usb, last.in.vendor_id.val, last.in.product_id.val) =>
           /\ last.result = Ok(<<>>)
           /\ last.backend = <<>>
    ELSE /\ ~last.scanned
         /\ last.backend = <<"connect", "query">>

(* C4 amended: called with both filters, get_driver_info answers Ok with   *)
(* an empty list, without opening a WMI connection or issuing a query,     *)
(* whenever the bus scan finds no device with that pair (also when the USB *)
(* context or the enumeration fails); called with at most one filter, it   *)
(* makes no bus scan and always opens the WMI connection, and the query is *)
(* issued unless opening the connection fails, in which case the call      *)
(* answers an error.                                                       *)
C4_PrecheckGatesQuery ==
  last.op = "get_driver_info" =>
    IF last.in.vendor_id.some /\ last.in.product_id.some
    THEN ~ScanFinds(last.in.usb, last.in.vendor_id.val, last.in.product_id.val) =>
           /\ last.result = Ok(<<>>)
           /\ last.backend = <<>>
    ELSE /\ ~last.scanned
         /\ IF last.in.wmi = "init_err"
            THEN last.backend = <<"connect">> /\ ~last.result.ok
            ELSE last.backend = <<"connect", "query">>

(* Both filters name the adapter, the database holds its record, but only  *)
(* a Pico is on the bus: the answer is empty and WMI was not touched.      *)
C4_Witness ==
  /\ last.op = "get_driver_info"
  /\ last.in.vendor_id = Some(VID_GAMECUBE)
  /\ last.in.product_id = Some(PID_GAMECUBE)
  /\ last.in.usb = "ok"
  /\ bus = <<Device(VID_PICO, PID_BOOTSEL, TRUE)>>
  /\ drvdb = <<GamecubeEntity(Some(WinUsbProvider))>>
  /\ last.result = Ok(<<>>)
  /\ last.backend = <<>>

====
